---- MODULE Spec2Model ----
(***************************************************************************)
(* Natural-proof reduction (prenex normalisation, skolemisation, bounded   *)
(* term instantiation), the counterexample-guided synthesis loop and the   *)
(* escalation controller of fol-synthesis, as state machines.              *)
(*                                                                         *)
(* Terms and formulas are tagged tuples:                                   *)
(*   <<"var", name, sort>>            <<"app", fn, sort, args>>            *)
(*   <<"false">> <<"true">>           <<"rel", name, args>>                *)
(*   <<"eq", l, r>> <<"and", l, r>> <<"or", l, r>> <<"imp", l, r>>         *)
(*   <<"iff", l, r>> <<"not", f>>                                          *)
(*   <<"forall", var, body>>          <<"exists", var, body>>              *)
(***************************************************************************)
EXTENDS Integers, Sequences, FiniteSets, TLC

VARIABLES
    \* ---- the call under way: which component runs
    component,
    \* ---- NaturalProof.term_instantiate / encode_validity (one generator object)
    pc,                     \* position of the generator's frame
    language,               \* function symbols of the language argument (in order)
    foreground_sort,
    formulas,               \* the tuple of input formulas
    depth,
    ground_terms,           \* OrderedDict keys, insertion order
    instantiated_formulas,  \* OrderedDict keys, insertion order
    round,                  \* iterations of the range(depth) loop begun so far
    has_new_formula,
    formula_index,          \* position in the for formula in formulas loop
    free_vars,
    ordered_ground_terms,   \* the snapshot taken for the current formula
    assignment_index,       \* position in itertools.product
    instantiated_formula,   \* the formula at the suspended yield
    emitted,                \* what the consumer has received from the stream
    round_start_terms,      \* ground_terms as the current round found them
    results,                \* depth -> what a finished call with that depth produced
    \* ---- NaturalProof.prenex_normalize / skolemize (pure functions applied to an input)
    nf_pc,
    nf_formula,
    nf_quants,
    nf_body,
    nf_runs,                \* what each run on nf_formula returned
    sk_given,               \* the language skolemize was called with
    sk_language,
    sk_body,
    \* ---- the synthesis loop of examples/axiomatization.py
    cg_pc,
    solver1,                \* the synthesizer's assertion stack: one set per scope
    solver2,                \* the verifier's assertion stack: one set per scope
    candidate,
    probe_result,           \* what solver2.solve() returned in this iteration
    counterexample,         \* the structure decoded from solver2's model
    true_formulas,
    refuted,                \* the candidates a counterexample was found for
    iterations,             \* loop bodies begun
    pushes,                 \* solver2.push() calls so far
    pops,                   \* solver2.pop() calls so far
    \* ---- the escalation controller prove() of examples/fossil_variants.py
    esc_pc,
    esc_init,               \* the four *_init values read from other_params
    iteration,
    bounds_now,             \* the four bounds computed for this iteration
    lemmas,
    esc_result,             \* what FOSSIL.prove_lfp reported in this iteration
    returned,               \* what prove() returned, once it has
    esc_log                 \* one record per call of FOSSIL.prove_lfp

instVars == <<pc, language, foreground_sort, formulas, depth, ground_terms,
              instantiated_formulas, round, has_new_formula, formula_index,
              free_vars, ordered_ground_terms, assignment_index,
              instantiated_formula, emitted, round_start_terms, results>>
nfVars == <<nf_pc, nf_formula, nf_quants, nf_body, nf_runs, sk_given, sk_language,
            sk_body>>
cgVars == <<cg_pc, solver1, solver2, candidate, probe_result, counterexample,
            true_formulas, refuted, iterations, pushes, pops>>
escVars == <<esc_pc, esc_init, iteration, bounds_now, lemmas, esc_result, returned, esc_log>>
vars == <<component, instVars, nfVars, cgVars, escVars>>

----------------------------------------------------------------------------
(* Bounds of the model *)

MaxDepth == 3
MaxRuns == 2
WorldCount == 2
MaxIteration == 4

----------------------------------------------------------------------------
(* Sequence helpers *)

Range(s) == {s[i] : i \in 1..Len(s)}

RECURSIVE ConcatAll(_)
ConcatAll(ss) == IF Len(ss) = 0 THEN <<>> ELSE Head(ss) \o ConcatAll(Tail(ss))

IsPrefix(s, t) == Len(s) <= Len(t) /\ SubSeq(t, 1, Len(s)) = s

RECURSIVE Pow(_, _)
Pow(b, e) == IF e = 0 THEN 1 ELSE b * Pow(b, e - 1)

NoDuplicates(s) == \A i, j \in 1..Len(s) : s[i] = s[j] => i = j

----------------------------------------------------------------------------
(* The term / formula algebra of synthesis.fol.base, through the interface *)
(* the prover uses: constructors, substitution, free variables, sorts.     *)

Variable(name, sort) == <<"var", name, sort>>
FunctionSymbol(input_sorts, output_sort, name) ==
    [input_sorts |-> input_sorts, output_sort |-> output_sort, name |-> name]
Application(symbol, arguments) == <<"app", symbol.name, symbol.output_sort, arguments>>
Falsum == <<"false">>
Verum == <<"true">>
RelationApplication(name, arguments) == <<"rel", name, arguments>>
Equality(l, r) == <<"eq", l, r>>
Conjunction(l, r) == <<"and", l, r>>
Disjunction(l, r) == <<"or", l, r>>
Implication(l, r) == <<"imp", l, r>>
Equivalence(l, r) == <<"iff", l, r>>
Negation(f) == <<"not", f>>
UniversalQuantification(v, body) == <<"forall", v, body>>
ExistentialQuantification(v, body) == <<"exists", v, body>>

IsBinary(f) == f[1] \in {"and", "or", "imp", "iff"}
IsQuantification(f) == f[1] \in {"forall", "exists"}

\* Sort.smt_hook is not None: the sort is interpreted by the decision procedure
InterpretedSorts == {"Int"}
SmtHook(sort) == sort \in InterpretedSorts

GetSort(term) == term[3]

RECURSIVE TermFreeVariables(_)
TermFreeVariables(term) ==
    IF term[1] = "var" THEN {term}
    ELSE UNION {TermFreeVariables(term[4][i]) : i \in 1..Len(term[4])}

RECURSIVE GetFreeVariables(_)
GetFreeVariables(f) ==
    CASE f[1] \in {"false", "true"} -> {}
      [] f[1] = "rel" -> UNION {TermFreeVariables(f[3][i]) : i \in 1..Len(f[3])}
      [] f[1] = "eq" -> TermFreeVariables(f[2]) \cup TermFreeVariables(f[3])
      [] IsBinary(f) -> GetFreeVariables(f[2]) \cup GetFreeVariables(f[3])
      [] f[1] = "not" -> GetFreeVariables(f[2])
      [] IsQuantification(f) -> GetFreeVariables(f[3]) \ {f[2]}

RECURSIVE IsQfree(_)
IsQfree(f) ==
    CASE f[1] \in {"false", "true", "rel", "eq"} -> TRUE
      [] IsBinary(f) -> IsQfree(f[2]) /\ IsQfree(f[3])
      [] f[1] = "not" -> IsQfree(f[2])
      [] IsQuantification(f) -> FALSE

\* substitution: a function from variables to terms
RECURSIVE SubstituteTerm(_, _)
SubstituteTerm(term, substitution) ==
    IF term[1] = "var"
    THEN IF term \in DOMAIN substitution THEN substitution[term] ELSE term
    ELSE <<"app", term[2], term[3],
           [i \in 1..Len(term[4]) |-> SubstituteTerm(term[4][i], substitution)]>>

RECURSIVE Substitute(_, _)
Substitute(f, substitution) ==
    CASE f[1] \in {"false", "true"} -> f
      [] f[1] = "rel" ->
            <<"rel", f[2], [i \in 1..Len(f[3]) |-> SubstituteTerm(f[3][i], substitution)]>>
      [] f[1] = "eq" ->
            <<"eq", SubstituteTerm(f[2], substitution), SubstituteTerm(f[3], substitution)>>
      [] IsBinary(f) ->
            <<f[1], Substitute(f[2], substitution), Substitute(f[3], substitution)>>
      [] f[1] = "not" -> <<"not", Substitute(f[2], substitution)>>
      [] IsQuantification(f) ->
            <<f[1], f[2],
              Substitute(f[3], [v \in DOMAIN substitution \ {f[2]} |-> substitution[v]])>>

\* the order sorted() puts variables in: by name
VariableOrder == <<"ab", "i", "x", "x0", "x00", "x01", "x1", "x2", "x3", "y", "z">>
NameRank(name) == CHOOSE i \in 1..Len(VariableOrder) : VariableOrder[i] = name

RECURSIVE Sorted(_)
Sorted(S) ==
    IF S = {} THEN <<>>
    ELSE LET first == CHOOSE v \in S : \A w \in S : NameRank(v[2]) <= NameRank(w[2])
         IN  <<first>> \o Sorted(S \ {first})

----------------------------------------------------------------------------
(* NaturalProof: terms of a formula *)

RECURSIVE get_all_terms(_)
get_all_terms(f) ==
    CASE f[1] \in {"false", "true"} -> <<>>
      [] f[1] = "rel" -> f[3]
      [] f[1] = "eq" -> <<f[2], f[3]>>
      [] IsBinary(f) -> get_all_terms(f[2]) \o get_all_terms(f[3])
      [] f[1] = "not" -> get_all_terms(f[2])
      [] IsQuantification(f) -> get_all_terms(f[3])

RECURSIVE get_all_ground_terms_in_term(_, _)
get_all_ground_terms_in_term(sort, term) ==
    IF term[1] = "var" THEN <<>>
    ELSE LET subterms == ConcatAll([i \in 1..Len(term[4]) |->
                             get_all_ground_terms_in_term(sort, term[4][i])])
         IN  IF GetSort(term) = sort /\ TermFreeVariables(term) = {}
             THEN <<term>> \o subterms
             ELSE subterms

get_all_ground_terms(sort, f) ==
    LET terms == get_all_terms(f)
    IN  ConcatAll([i \in 1..Len(terms) |-> get_all_ground_terms_in_term(sort, terms[i])])

----------------------------------------------------------------------------
(* QuantifierKind and QuantifierList *)

UNIVERSAL == "UNIVERSAL"
EXISTENTIAL == "EXISTENTIAL"

dual(kind) == IF kind = UNIVERSAL THEN EXISTENTIAL ELSE UNIVERSAL

\* a faulty variant of flip_quantifier_list: the kinds are left as they are
keep_quantifier_list(quants) == quants

flip_quantifier_list(quants) ==
    [i \in 1..Len(quants) |-> <<quants[i][1], dual(quants[i][2])>>]

RECURSIVE count_quantifiers(_)
count_quantifiers(f) ==
    CASE f[1] \in {"false", "true", "rel", "eq"} -> 0
      [] IsBinary(f) -> count_quantifiers(f[2]) + count_quantifiers(f[3])
      [] f[1] = "not" -> count_quantifiers(f[2])
      [] IsQuantification(f) -> count_quantifiers(f[3]) + 1

----------------------------------------------------------------------------
(* NaturalProof.get_longest_variable_name; the default is always "x": no   *)
(* caller passes another one                                               *)

DefaultName == "x"

\* for argument in ast.arguments: if len(name) > len(var_name): var_name = name
RECURSIVE LongestOfArguments(_, _)
LongestOfArguments(names, var_name) ==
    IF Len(names) = 0 THEN var_name
    ELSE LongestOfArguments(Tail(names),
            IF Len(Head(names)) > Len(var_name) THEN Head(names) ELSE var_name)

\* Equality: the right name only when strictly longer
LongestOfEquality(left_name, right_name) ==
    IF Len(right_name) > Len(left_name) THEN right_name ELSE left_name

\* a faulty variant of LongestOfPair: the comparison is turned around
ShortestOfPair(left_name, right_name) ==
    IF Len(left_name) <= Len(right_name) THEN left_name ELSE right_name

\* binary connectives and quantifications: the first name unless strictly shorter
LongestOfPair(left_name, right_name) ==
    IF Len(left_name) >= Len(right_name) THEN left_name ELSE right_name

RECURSIVE get_longest_variable_name(_)
get_longest_variable_name(ast) ==
    CASE ast[1] \in {"false", "true"} -> DefaultName
      [] ast[1] = "var" -> ast[2]
      [] ast[1] = "app" ->
            LongestOfArguments([i \in 1..Len(ast[4]) |->
                                   get_longest_variable_name(ast[4][i])], DefaultName)
      [] ast[1] = "rel" ->
            LongestOfArguments([i \in 1..Len(ast[3]) |->
                                   get_longest_variable_name(ast[3][i])], DefaultName)
      [] ast[1] = "eq" ->
            LongestOfEquality(get_longest_variable_name(ast[2]),
                              get_longest_variable_name(ast[3]))
      [] IsBinary(ast) ->
            LongestOfPair(get_longest_variable_name(ast[2]),
                          get_longest_variable_name(ast[3]))
      [] ast[1] = "not" -> get_longest_variable_name(ast[2])
      [] IsQuantification(ast) ->
            LongestOfPair(ast[2][2], get_longest_variable_name(ast[3]))

----------------------------------------------------------------------------
(* NaturalProof.prenex_normalize: [quants, body], quants outermost first   *)

\* a faulty variant of SameConnective: a conjunction whatever the input was
AlwaysConjunction(f, left_prenex, right_prenex) == Conjunction(left_prenex, right_prenex)

\* type(formula)(left_prenex, right_prenex)
SameConnective(f, left_prenex, right_prenex) == <<f[1], left_prenex, right_prenex>>

\* Variable(f"{var_prefix}{var_index}", formula.variable.sort)
RenamedVariable(var_prefix, var_index, variable) ==
    Variable(var_prefix \o ToString(var_index), variable[3])

Single(v, t) == [w \in {v} |-> t]

RECURSIVE prenex_normalize_from(_, _, _)
prenex_normalize_from(f, var_index, var_prefix) ==
    CASE f[1] \in {"false", "true", "rel", "eq"} -> [quants |-> <<>>, body |-> f]
      [] f[1] \in {"and", "or"} ->
            LET left == prenex_normalize_from(f[2], var_index, var_prefix)
                right == prenex_normalize_from(f[3], var_index + Len(left.quants), var_prefix)
            IN  [quants |-> left.quants \o right.quants,
                 body |-> SameConnective(f, left.body, right.body)]
      [] f[1] = "not" ->
            LET inner == prenex_normalize_from(f[2], var_index, var_prefix)
            IN  [quants |-> flip_quantifier_list(inner.quants), body |-> Negation(inner.body)]
      [] f[1] = "imp" ->
            LET left == prenex_normalize_from(f[2], var_index, var_prefix)
                right == prenex_normalize_from(f[3], var_index + Len(left.quants), var_prefix)
            IN  [quants |-> flip_quantifier_list(left.quants) \o right.quants,
                 body |-> Implication(left.body, right.body)]
      [] f[1] = "iff" ->
            prenex_normalize_from(
                Conjunction(Implication(f[2], f[3]), Implication(f[3], f[2])),
                var_index, var_prefix)
      [] IsQuantification(f) ->
            LET inner == prenex_normalize_from(f[3], var_index + 1, var_prefix)
                renamed_var == RenamedVariable(var_prefix, var_index, f[2])
                kind == IF f[1] = "forall" THEN UNIVERSAL ELSE EXISTENTIAL
            IN  [quants |-> <<<<renamed_var, kind>>>> \o inner.quants,
                 body |-> Substitute(inner.body, Single(f[2], renamed_var))]

\* the entry point: var_index = 0, var_prefix = the longest variable name
prenex_normalize(f) == prenex_normalize_from(f, 0, get_longest_variable_name(f))

----------------------------------------------------------------------------
(* Language: the function symbols, in order; get_fresh_function_name and   *)
(* expand_with_function return a new value                                 *)

FunctionNames(lang) == {lang[i].name : i \in 1..Len(lang)}

RECURSIVE FreshIndex(_, _, _)
FreshIndex(lang, prefix, k) ==
    IF (prefix \o ToString(k)) \in FunctionNames(lang)
    THEN FreshIndex(lang, prefix, k + 1)
    ELSE k

get_fresh_function_name(lang, prefix) == prefix \o ToString(FreshIndex(lang, prefix, 0))

expand_with_function(lang, symbol) == Append(lang, symbol)

----------------------------------------------------------------------------
(* NaturalProof.skolemize: [language, body]                                *)

\* a faulty variant of SkolemizeStep: a Skolem constant, whatever universal
\* variables came before
SkolemizeStepConstant(st, var, kind) ==
    IF kind = UNIVERSAL
    THEN [st EXCEPT !.universal_variables = Append(@, var)]
    ELSE LET skolem_function_symbol ==
                 FunctionSymbol(<<>>, var[3], get_fresh_function_name(st.language, "sk"))
         IN  [st EXCEPT
                !.language = expand_with_function(@, skolem_function_symbol),
                !.prenex = Substitute(@, Single(var,
                              Application(skolem_function_symbol, <<>>)))]

\* one iteration of the for var, kind in quants loop
\* st = [language, prenex, universal_variables]
SkolemizeStep(st, var, kind) ==
    IF kind = UNIVERSAL
    THEN [st EXCEPT !.universal_variables = Append(@, var)]
    ELSE LET skolem_function_symbol ==
                 FunctionSymbol([i \in 1..Len(st.universal_variables) |->
                                    st.universal_variables[i][3]],
                                var[3],
                                get_fresh_function_name(st.language, "sk"))
         IN  [st EXCEPT
                !.language = expand_with_function(@, skolem_function_symbol),
                !.prenex = Substitute(@, Single(var,
                              Application(skolem_function_symbol, st.universal_variables)))]

RECURSIVE SkolemizeLoop(_, _, _)
SkolemizeLoop(st, quants, i) ==
    IF i > Len(quants) THEN st
    ELSE SkolemizeLoop(SkolemizeStep(st, quants[i][1], quants[i][2]), quants, i + 1)

skolemize(lang, f) ==
    LET normal == prenex_normalize(f)
        final == SkolemizeLoop([language |-> lang, prenex |-> normal.body,
                                universal_variables |-> <<>>], normal.quants, 1)
    IN  [language |-> final.language, body |-> final.prenex]

----------------------------------------------------------------------------
(* Theory: the language's function symbols and the sentences; a sentence   *)
(* is <<"axiom", formula>> or <<"fixpoint", relation, parameters, body>>   *)

RECURSIVE QuantifyOver(_, _)
QuantifyOver(variables, f) ==
    IF Len(variables) = 0 THEN f
    ELSE UniversalQuantification(Head(variables), QuantifyOver(Tail(variables), f))

quantify_all_free_variables(f) == QuantifyOver(Sorted(GetFreeVariables(f)), f)

\* fixpoint definitions are added as equivalence
convert_to_fo_theory(theory) ==
    [i \in 1..Len(theory.sentences) |->
        LET sentence == theory.sentences[i]
        IN  IF sentence[1] = "axiom" THEN sentence[2]
            ELSE QuantifyOver(sentence[3],
                     Equivalence(RelationApplication(sentence[2], sentence[3]), sentence[4]))]

----------------------------------------------------------------------------
(* NaturalProof.encode_validity, up to the call of term_instantiate        *)

\* for i, formula in enumerate(normalized_formulas): skolemize, threading the language
RECURSIVE SkolemizeAll(_, _, _)
SkolemizeAll(lang, sentences, i) ==
    IF i > Len(sentences) THEN [language |-> lang, formulas |-> <<>>]
    ELSE LET one == skolemize(lang, sentences[i])
             rest == SkolemizeAll(one.language, sentences, i + 1)
         IN  [language |-> rest.language, formulas |-> <<one.body>> \o rest.formulas]

\* a faulty variant of NegatedGoal: the goal is closed but not negated
UnnegatedGoal(goal) == quantify_all_free_variables(goal)

\* Negation(goal).quantify_all_free_variables()
NegatedGoal(goal) == quantify_all_free_variables(Negation(goal))

encode_validity(theory, goal) ==
    LET normalized == SkolemizeAll(theory.language, convert_to_fo_theory(theory), 1)
        negated == skolemize(normalized.language, NegatedGoal(goal))
    IN  [language |-> negated.language,
         formulas |-> <<negated.body>> \o normalized.formulas]

----------------------------------------------------------------------------
(* NaturalProof.term_instantiate: the pieces of the generator's body       *)

\* a faulty variant of AddGroundTerms: a new term goes to the front of the order
RECURSIVE AddGroundTermsInFront(_, _)
AddGroundTermsInFront(G, terms) ==
    IF Len(terms) = 0 THEN G
    ELSE AddGroundTermsInFront(
            IF Head(terms) \in Range(G) THEN G ELSE <<Head(terms)>> \o G, Tail(terms))

\* ground_terms[ground_term] = None, for each of terms in order
RECURSIVE AddGroundTerms(_, _)
AddGroundTerms(G, terms) ==
    IF Len(terms) = 0 THEN G
    ELSE AddGroundTerms(IF Head(terms) \in Range(G) THEN G ELSE Append(G, Head(terms)),
                        Tail(terms))

\* the nullary function symbols of the foreground sort, in language order
RECURSIVE LanguageGroundTerms(_, _, _)
LanguageGroundTerms(lang, sort, i) ==
    IF i > Len(lang) THEN <<>>
    ELSE (IF lang[i].output_sort = sort /\ Len(lang[i].input_sorts) = 0
          THEN <<Application(lang[i], <<>>)>> ELSE <<>>)
         \o LanguageGroundTerms(lang, sort, i + 1)

\* the seed: the language's constants, or else the ground terms of the formulas
SeedGroundTerms(lang, sort, fs) ==
    LET from_language == AddGroundTerms(<<>>, LanguageGroundTerms(lang, sort, 1))
    IN  IF Len(from_language) = 0
        THEN AddGroundTerms(<<>>,
                 ConcatAll([i \in 1..Len(fs) |-> get_all_ground_terms(sort, fs[i])]))
        ELSE from_language

\* sorted(var for var in formula.get_free_variables() if var.sort == foreground_sort)
ForegroundFreeVars(f, sort) == Sorted({v \in GetFreeVariables(f) : v[3] = sort})

\* the number of tuples of itertools.product(ordered_ground_terms, repeat=n)
ProductSize(ogt, n) == Pow(Len(ogt), n)

\* the k-th tuple (from 0) of itertools.product: the last position varies fastest
ProductAt(ogt, n, k) ==
    [j \in 1..n |-> ogt[((k \div Pow(Len(ogt), n - j)) % Len(ogt)) + 1]]

\* formula.substitute(dict(zip(free_vars, assignment)))
InstantiateWith(f, fv, assignment) ==
    Substitute(f, [v \in Range(fv) |->
                     assignment[CHOOSE j \in 1..Len(fv) : fv[j] = v]])

\* a faulty variant of FlagAfter: the flag is overwritten by every assignment
FlagOfLastAssignment(flag, is_new) == is_new

\* a faulty variant of IsNewFormula: the membership test is lost
AlwaysNew(f, F) == TRUE

\* a faulty variant of IsNewFormula: only the formula produced last is remembered
DiffersFromLast(f, F) == F = <<>> \/ F[Len(F)] # f

\* if instantiated_formula not in instantiated_formulas
IsNewFormula(f, F) == f \notin Range(F)

\* has_new_formula after one assignment: set when the formula is new
FlagAfter(flag, is_new) == flag \/ is_new

\* what a whole call had produced when it ended
Outcome == [emitted |-> emitted, ground_terms |-> ground_terms,
            instantiated_formulas |-> instantiated_formulas]

----------------------------------------------------------------------------
(* The inputs the calls are made with *)

Pointer == "Pointer"
IntSort == "Int"

nil_symbol == FunctionSymbol(<<>>, Pointer, "nil")
next_symbol == FunctionSymbol(<<Pointer>>, Pointer, "next")
zero_symbol == FunctionSymbol(<<>>, IntSort, "zero")

nil == Application(nil_symbol, <<>>)
zero == Application(zero_symbol, <<>>)
next(t) == Application(next_symbol, <<t>>)
list(t) == RelationApplication("list", <<t>>)
lseg(t, u) == RelationApplication("lseg", <<t, u>>)

var_x == Variable("x", Pointer)
var_y == Variable("y", Pointer)
var_i == Variable("i", IntSort)

\* list(x) = x = nil() \/ list(next(x)), the body of the LIST theory's fixpoint
ListBody == Disjunction(Equality(var_x, nil), list(next(var_x)))
ListDefinition == Equivalence(list(var_x), ListBody)
LsegStep == Implication(lseg(var_x, var_y), lseg(next(var_x), var_y))
Reach == RelationApplication("R", <<var_x>>)
Closed == RelationApplication("R", <<nil>>)
IntOnly == RelationApplication("le_int", <<var_i, zero>>)
GroundFact == RelationApplication("Q", <<next(nil)>>)

ListLanguage == <<nil_symbol, next_symbol>>
NextLanguage == <<next_symbol>>
IntLanguage == <<nil_symbol, next_symbol, zero_symbol>>

Input(lang, sort, fs) == [language |-> lang, foreground_sort |-> sort, formulas |-> fs]

\* arguments of direct calls of term_instantiate
InstantiateInputs ==
    { Input(ListLanguage, Pointer, <<ListDefinition>>),
      Input(ListLanguage, Pointer, <<Reach>>),
      Input(ListLanguage, Pointer, <<Closed>>),
      Input(IntLanguage, Pointer, <<IntOnly>>),
      Input(ListLanguage, Pointer, <<ListDefinition, Reach>>),
      Input(ListLanguage, Pointer, <<Reach, ListDefinition>>),
      Input(ListLanguage, Pointer, <<ListDefinition, Closed>>),
      Input(ListLanguage, Pointer, <<LsegStep>>),
      Input(ListLanguage, Pointer, <<GroundFact, Reach>>),
      Input(ListLanguage, Pointer, <<Reach, GroundFact>>),
      Input(ListLanguage, Pointer, <<>>),
      Input(NextLanguage, Pointer, <<ListDefinition>>),
      Input(NextLanguage, Pointer, <<Reach>>),
      Input(NextLanguage, Pointer, <<>>),
      Input(IntLanguage, IntSort, <<IntOnly>>) }

\* the theory of the list scenario: nil, next and the fixpoint list
ListTheory ==
    [language |-> ListLanguage,
     sentences |-> <<<<"fixpoint", "list", <<var_x>>, ListBody>>>>]
\* a theory with no constant and no sentence
BareTheory == [language |-> NextLanguage, sentences |-> <<>>]

\* forall x: Pointer. list(x) -> next(x) != x
GoalNextDiffers ==
    UniversalQuantification(var_x,
        Implication(list(var_x), Negation(Equality(next(var_x), var_x))))
\* list(nil())
GoalListNil == list(nil)
\* exists x: Pointer. R(x)
GoalSomeReach == ExistentialQuantification(var_x, Reach)

ValidityInputs ==
    { [theory |-> ListTheory, foreground_sort |-> Pointer, goal |-> GoalNextDiffers],
      [theory |-> ListTheory, foreground_sort |-> Pointer, goal |-> GoalListNil],
      [theory |-> BareTheory, foreground_sort |-> Pointer, goal |-> GoalSomeReach],
      [theory |-> BareTheory, foreground_sort |-> Pointer, goal |-> GoalNextDiffers] }

Depths == (0 - 1)..MaxDepth

----------------------------------------------------------------------------
(* Initial values of the four components *)

InstIdle ==
    /\ pc = "idle"
    /\ language = <<>>
    /\ foreground_sort = Pointer
    /\ formulas = <<>>
    /\ depth = 0
    /\ ground_terms = <<>>
    /\ instantiated_formulas = <<>>
    /\ round = 0
    /\ has_new_formula = FALSE
    /\ formula_index = 0
    /\ free_vars = <<>>
    /\ ordered_ground_terms = <<>>
    /\ assignment_index = 0
    /\ instantiated_formula = Verum
    /\ emitted = <<>>
    /\ round_start_terms = <<>>
    /\ results = <<>>

NfIdle ==
    /\ nf_pc = "idle"
    /\ nf_formula = Verum
    /\ nf_quants = <<>>
    /\ nf_body = Verum
    /\ nf_runs = <<>>
    /\ sk_given = <<>>
    /\ sk_language = <<>>
    /\ sk_body = Verum

CgIdle ==
    /\ cg_pc = "idle"
    /\ solver1 = <<>>
    /\ solver2 = <<>>
    /\ candidate = <<>>
    /\ probe_result = FALSE
    /\ counterexample = <<>>
    /\ true_formulas = <<>>
    /\ refuted = {}
    /\ iterations = 0
    /\ pushes = 0
    /\ pops = 0

EscIdle ==
    /\ esc_pc = "idle"
    /\ esc_init = <<>>
    /\ iteration = 0
    /\ bounds_now = <<>>
    /\ lemmas = <<>>
    /\ esc_result = FALSE
    /\ returned = <<"none">>
    /\ esc_log = <<>>

----------------------------------------------------------------------------
(* term_instantiate as a generator: created by the call, run by next()     *)

\* the frame of a generator that has not started
NewGenerator(lang, sort, fs, d) ==
    /\ language' = lang
    /\ foreground_sort' = sort
    /\ formulas' = fs
    /\ depth' = d
    /\ pc' = "created"
    /\ ground_terms' = <<>>
    /\ instantiated_formulas' = <<>>
    /\ round' = 0
    /\ has_new_formula' = FALSE
    /\ formula_index' = 0
    /\ free_vars' = <<>>
    /\ ordered_ground_terms' = <<>>
    /\ assignment_index' = 0
    /\ instantiated_formula' = Verum
    /\ emitted' = <<>>
    /\ round_start_terms' = <<>>

instLocals == <<ground_terms, instantiated_formulas, round, has_new_formula,
                formula_index, free_vars, ordered_ground_terms, assignment_index,
                instantiated_formula, emitted, round_start_terms>>
instArgs == <<language, foreground_sort, formulas, depth>>
notInst == <<component, nfVars, cgVars, escVars>>

\* NaturalProof.term_instantiate(language, foreground_sort, formulas, depth):
\* calling a generator function runs none of its body
CallTermInstantiate ==
    /\ component = "instantiate" /\ pc = "idle"
    /\ \E input \in InstantiateInputs, d \in Depths :
          NewGenerator(input.language, input.foreground_sort, input.formulas, d)
    /\ UNCHANGED <<results, notInst>>

\* NaturalProof.encode_validity(theory, foreground_sort, goal, depth): returns
\* the language and the generator
CallEncodeValidity ==
    /\ component = "instantiate" /\ pc = "idle"
    /\ \E input \in ValidityInputs, d \in Depths :
          LET encoded == encode_validity(input.theory, input.goal)
          IN  NewGenerator(encoded.language, input.foreground_sort, encoded.formulas, d)
    /\ UNCHANGED <<results, notInst>>

\* the first next(): the assertions and the seed
Start ==
    /\ component = "instantiate" /\ pc = "created"
    /\ LET seed == SeedGroundTerms(language, foreground_sort, formulas)
       IN  IF SmtHook(foreground_sort) \/ Len(seed) = 0 \/ depth < 0
           THEN pc' = "failed" /\ UNCHANGED ground_terms
           ELSE pc' = "loop" /\ ground_terms' = seed
    /\ UNCHANGED <<instArgs, instantiated_formulas, round, has_new_formula,
                   formula_index, free_vars, ordered_ground_terms, assignment_index,
                   instantiated_formula, emitted, round_start_terms, results, notInst>>

\* for _ in range(depth): the next round, or the end of the generator
RoundBegin ==
    /\ component = "instantiate" /\ pc = "loop"
    /\ IF round = depth
       THEN /\ pc' = "done"
            /\ results' = (depth :> Outcome) @@ results
            /\ UNCHANGED <<round, has_new_formula, formula_index, round_start_terms>>
       ELSE /\ pc' = "formula"
            /\ round' = round + 1
            /\ has_new_formula' = FALSE
            /\ formula_index' = 1
            /\ round_start_terms' = ground_terms
            /\ UNCHANGED results
    /\ UNCHANGED <<instArgs, ground_terms, instantiated_formulas, free_vars,
                   ordered_ground_terms, assignment_index, instantiated_formula,
                   emitted, notInst>>

\* for formula in formulas: free_vars and the snapshot of ground_terms
FormulaBegin ==
    /\ component = "instantiate" /\ pc = "formula"
    /\ IF formula_index > Len(formulas)
       THEN /\ pc' = "round_end"
            /\ UNCHANGED <<free_vars, ordered_ground_terms, assignment_index>>
       ELSE /\ pc' = "assign"
            /\ free_vars' = ForegroundFreeVars(formulas[formula_index], foreground_sort)
            /\ ordered_ground_terms' = ground_terms
            /\ assignment_index' = 0
    /\ UNCHANGED <<instArgs, ground_terms, instantiated_formulas, round,
                   has_new_formula, formula_index, instantiated_formula, emitted,
                   round_start_terms, results, notInst>>

\* for assignment in itertools.product(...): one assignment, up to the yield
\* when the formula is new
Assign ==
    /\ component = "instantiate" /\ pc = "assign"
    /\ IF assignment_index >= ProductSize(ordered_ground_terms, Len(free_vars))
       THEN /\ pc' = "formula"
            /\ formula_index' = formula_index + 1
            /\ UNCHANGED <<ground_terms, instantiated_formulas, has_new_formula,
                           assignment_index, instantiated_formula, emitted>>
       ELSE LET new_formula ==
                    InstantiateWith(formulas[formula_index], free_vars,
                        ProductAt(ordered_ground_terms, Len(free_vars), assignment_index))
                is_new == IsNewFormula(new_formula, instantiated_formulas)
            IN  /\ instantiated_formula' = new_formula
                /\ has_new_formula' = FlagAfter(has_new_formula, is_new)
                /\ UNCHANGED formula_index
                /\ IF is_new
                   THEN /\ instantiated_formulas' = Append(instantiated_formulas, new_formula)
                        /\ emitted' = Append(emitted, new_formula)
                        /\ pc' = "yielded"
                        /\ UNCHANGED <<ground_terms, assignment_index>>
                   ELSE /\ ground_terms' = AddGroundTerms(ground_terms,
                                get_all_ground_terms(foreground_sort, new_formula))
                        /\ assignment_index' = assignment_index + 1
                        /\ pc' = "assign"
                        /\ UNCHANGED <<instantiated_formulas, emitted>>
    /\ UNCHANGED <<instArgs, round, free_vars, ordered_ground_terms,
                   round_start_terms, results, notInst>>

\* next() on a generator suspended at the yield: add new ground terms
Resume ==
    /\ component = "instantiate" /\ pc = "yielded"
    /\ ground_terms' = AddGroundTerms(ground_terms,
            get_all_ground_terms(foreground_sort, instantiated_formula))
    /\ assignment_index' = assignment_index + 1
    /\ pc' = "assign"
    /\ UNCHANGED <<instArgs, instantiated_formulas, round, has_new_formula,
                   formula_index, free_vars, ordered_ground_terms,
                   instantiated_formula, emitted, round_start_terms, results, notInst>>

\* if not has_new_formula: break
RoundEnd ==
    /\ component = "instantiate" /\ pc = "round_end"
    /\ IF has_new_formula
       THEN pc' = "loop" /\ UNCHANGED results
       ELSE pc' = "done" /\ results' = (depth :> Outcome) @@ results
    /\ UNCHANGED <<instArgs, instLocals, notInst>>

\* the same arguments again, with another depth
CallAgain ==
    /\ component = "instantiate" /\ pc = "done"
    /\ \E d \in (0..MaxDepth) \ DOMAIN results :
          NewGenerator(language, foreground_sort, formulas, d)
    /\ UNCHANGED <<results, notInst>>

InitInst == component = "instantiate" /\ InstIdle /\ NfIdle /\ CgIdle /\ EscIdle

NextInst ==
    \/ CallTermInstantiate
    \/ CallEncodeValidity
    \/ Start
    \/ RoundBegin
    \/ FormulaBegin
    \/ Assign
    \/ Resume
    \/ RoundEnd
    \/ CallAgain

SpecInst == InitInst /\ [][NextInst]_vars

----------------------------------------------------------------------------
(* The formulas prenex_normalize and skolemize are applied to *)

var_x0 == Variable("x0", Pointer)
var_ab == Variable("ab", Pointer)

Atoms ==
    { Reach,
      lseg(var_x, var_y),
      Equality(var_x0, nil),
      RelationApplication("Q", <<var_ab>>) }

BoundVariables == {var_x, var_y}

Connectives == {"and", "or", "imp", "iff"}

Quantified(S) ==
    {<<q, v, f>> : q \in {"forall", "exists"}, v \in BoundVariables, f \in S}
Negated(S) == {Negation(f) : f \in S}
Combined(L, R) == {<<op, l, r>> : op \in Connectives, l \in L, r \in R}

\* quantifier-free formulas, with negation, implication and equivalence
QuantifierFree == Atoms \cup Negated(Atoms) \cup Combined(Atoms, Atoms)

\* one quantifier over an atom
OneQuantifier == Quantified(Atoms)

\* two nested quantifiers, or a negation between or around them
TwoQuantifiers ==
    Quantified(OneQuantifier) \cup Negated(OneQuantifier)
        \cup Quantified(Negated({Reach, lseg(var_x, var_y)}))

\* a few quantified formulas to build larger ones from
Chosen ==
    { UniversalQuantification(var_x, Reach),
      ExistentialQuantification(var_y, lseg(var_x, var_y)),
      Negation(ExistentialQuantification(var_x, Equality(var_x0, nil))),
      UniversalQuantification(var_x, ExistentialQuantification(var_y, lseg(var_x, var_y))),
      RelationApplication("Q", <<var_ab>>) }

\* formulas whose only variable is y: no name is longer than the default
ShortNames ==
    { Implication(RelationApplication("R", <<var_y>>),
                  UniversalQuantification(var_y, RelationApplication("Q", <<var_y>>))),
      Conjunction(Verum,
                  ExistentialQuantification(var_y, RelationApplication("Q", <<var_y>>))),
      UniversalQuantification(var_y, RelationApplication("Q", <<var_y>>)) }

PrenexInputs ==
    QuantifierFree \cup OneQuantifier \cup TwoQuantifiers
        \cup Combined(Atoms \cup OneQuantifier, Chosen)
        \cup Combined(Chosen, Negated(OneQuantifier))
        \cup {Conjunction(l, r) : l \in QuantifierFree, r \in Negated(Atoms) \cup Combined({Reach}, Atoms)}
        \cup {Implication(l, r) : l \in Combined(Chosen, Chosen) \cup Negated(Combined(Chosen, Chosen)), r \in Chosen}
        \cup Quantified(Combined(Chosen, Chosen))
        \cup ShortNames

\* languages skolemize is called with: with and without a symbol named sk0
SkolemLanguages ==
    { ListLanguage,
      <<nil_symbol, FunctionSymbol(<<>>, Pointer, "sk0"), next_symbol>> }

----------------------------------------------------------------------------
(* prenex_normalize and skolemize applied to an input *)

notNf == <<component, instVars, cgVars, escVars>>

\* NaturalProof.prenex_normalize(formula)
Normalize ==
    /\ component = "normalize" /\ nf_pc = "idle"
    /\ \E f \in PrenexInputs :
          LET normal == prenex_normalize(f)
          IN  /\ nf_formula' = f
              /\ nf_quants' = normal.quants
              /\ nf_body' = normal.body
              /\ nf_runs' = <<normal>>
    /\ nf_pc' = "normalized"
    /\ UNCHANGED <<sk_given, sk_language, sk_body, notNf>>

\* NaturalProof.prenex_normalize on the same formula once more
NormalizeAgain ==
    /\ component = "normalize" /\ nf_pc = "normalized"
    /\ Len(nf_runs) < MaxRuns
    /\ LET normal == prenex_normalize(nf_formula)
       IN  /\ nf_quants' = normal.quants
           /\ nf_body' = normal.body
           /\ nf_runs' = Append(nf_runs, normal)
    /\ UNCHANGED <<nf_pc, nf_formula, sk_given, sk_language, sk_body, notNf>>

\* NaturalProof.skolemize(language, formula)
Skolemize ==
    /\ component = "normalize" /\ nf_pc = "normalized"
    /\ \E lang \in SkolemLanguages :
          LET result == skolemize(lang, nf_formula)
          IN  /\ sk_given' = lang
              /\ sk_language' = result.language
              /\ sk_body' = result.body
    /\ nf_pc' = "skolemized"
    /\ UNCHANGED <<nf_formula, nf_quants, nf_body, nf_runs, notNf>>

InitNormalize == component = "normalize" /\ InstIdle /\ NfIdle /\ CgIdle /\ EscIdle

NextNormalize ==
    \/ Normalize
    \/ NormalizeAgain
    \/ Skolemize

SpecNormalize == InitNormalize /\ [][NextNormalize]_vars

----------------------------------------------------------------------------
(* One whole round of term_instantiate as a function of what the call      *)
(* holds: st = [emitted, ground_terms, instantiated_formulas]              *)

\* the assignments k, k+1, ... of one formula
RECURSIVE AssignmentsFrom(_, _, _, _, _, _)
AssignmentsFrom(st, f, fv, ogt, sort, k) ==
    IF k >= ProductSize(ogt, Len(fv)) THEN st
    ELSE LET new_formula == InstantiateWith(f, fv, ProductAt(ogt, Len(fv), k))
             is_new == IsNewFormula(new_formula, st.instantiated_formulas)
             after ==
                 [emitted |-> IF is_new THEN Append(st.emitted, new_formula)
                              ELSE st.emitted,
                  instantiated_formulas |->
                      IF is_new THEN Append(st.instantiated_formulas, new_formula)
                      ELSE st.instantiated_formulas,
                  ground_terms |-> AddGroundTerms(st.ground_terms,
                                       get_all_ground_terms(sort, new_formula))]
         IN  AssignmentsFrom(after, f, fv, ogt, sort, k + 1)

\* the formulas i, i+1, ... of one round
RECURSIVE FormulasFrom(_, _, _, _)
FormulasFrom(st, fs, sort, i) ==
    IF i > Len(fs) THEN st
    ELSE FormulasFrom(
            AssignmentsFrom(st, fs[i], ForegroundFreeVars(fs[i], sort),
                            st.ground_terms, sort, 0),
            fs, sort, i + 1)

\* n more rounds, none of them cut short
RECURSIVE RoundsFrom(_, _, _, _)
RoundsFrom(st, fs, sort, n) ==
    IF n = 0 THEN st ELSE RoundsFrom(FormulasFrom(st, fs, sort, 1), fs, sort, n - 1)

----------------------------------------------------------------------------
(* The decision procedure's reading of a set of ground formulas: finite    *)
(* structures over a Pointer domain of DomainSize elements                 *)

DomainSize == 4
Domain == 1..DomainSize

NamesOfArity(lang, n) == {lang[i].name : i \in {j \in 1..Len(lang) : Len(lang[j].input_sorts) = n}}

RECURSIVE RelationNames(_)
RelationNames(f) ==
    CASE f[1] \in {"false", "true", "eq"} -> {}
      [] f[1] = "rel" -> {f[2]}
      [] IsBinary(f) -> RelationNames(f[2]) \cup RelationNames(f[3])
      [] f[1] = "not" -> RelationNames(f[2])
      [] IsQuantification(f) -> RelationNames(f[3])

\* constants, unary functions and unary relations: what the list scenario uses
Structures(lang, fs) ==
    [constant : [NamesOfArity(lang, 0) -> Domain],
     function : [NamesOfArity(lang, 1) -> [Domain -> Domain]],
     relation : [UNION {RelationNames(fs[i]) : i \in 1..Len(fs)} -> SUBSET Domain]]

RECURSIVE TermValue(_, _)
TermValue(structure, term) ==
    IF Len(term[4]) = 0 THEN structure.constant[term[2]]
    ELSE structure.function[term[2]][TermValue(structure, term[4][1])]

RECURSIVE Holds(_, _)
Holds(structure, f) ==
    CASE f[1] = "false" -> FALSE
      [] f[1] = "true" -> TRUE
      [] f[1] = "rel" -> TermValue(structure, f[3][1]) \in structure.relation[f[2]]
      [] f[1] = "eq" -> TermValue(structure, f[2]) = TermValue(structure, f[3])
      [] f[1] = "and" -> Holds(structure, f[2]) /\ Holds(structure, f[3])
      [] f[1] = "or" -> Holds(structure, f[2]) \/ Holds(structure, f[3])
      [] f[1] = "imp" -> Holds(structure, f[2]) => Holds(structure, f[3])
      [] f[1] = "iff" -> Holds(structure, f[2]) <=> Holds(structure, f[3])
      [] f[1] = "not" -> ~Holds(structure, f[2])

GroundSatisfiable(lang, fs) ==
    \E structure \in Structures(lang, fs) : \A i \in 1..Len(fs) : Holds(structure, fs[i])

----------------------------------------------------------------------------
(* Properties of the term instantiator *)

\* in one step of a running generator the ground terms only grow at the end
GroundTermsGrow == pc' # "created" => IsPrefix(ground_terms, ground_terms')

\* C1: instantiation monotonicity. Of two finished calls on the same
\* arguments with depths d1 < d2, the stream and the ground-term set of the
\* first are prefixes of those of the second; and while a call runs, its
\* ground-term set keeps every term, in place.
C1_Monotonicity ==
    /\ [](\A d1, d2 \in DOMAIN results :
            d1 < d2 => /\ IsPrefix(results[d1].emitted, results[d2].emitted)
                       /\ IsPrefix(results[d1].ground_terms, results[d2].ground_terms))
    /\ [][GroundTermsGrow]_vars

\* two finished calls of which the deeper one emitted more and found more terms
C1_Witness ==
    \E d1, d2 \in DOMAIN results :
        /\ d1 < d2
        /\ Len(results[d1].emitted) < Len(results[d2].emitted)
        /\ Len(results[d1].ground_terms) < Len(results[d2].ground_terms)

\* C2: instantiation stability. When a round has emitted no new formula (the
\* generator is about to break), any number of further rounds on the same
\* arguments emits nothing and adds no ground term, so the stream is the one
\* all the rounds would have produced.
C2_Stability ==
    (pc = "round_end" /\ ~has_new_formula) =>
        \A n \in 1..(MaxDepth + 1) :
            RoundsFrom(Outcome, formulas, foreground_sort, n) = Outcome

\* a break before the requested depth, after rounds that did emit
C2_Witness ==
    /\ pc = "round_end" /\ ~has_new_formula
    /\ round < depth
    /\ Len(emitted) > 1
    /\ Len(ground_terms) > 1

\* the single input formula has no free variable of the foreground sort
NoForegroundVariable ==
    /\ Len(formulas) = 1
    /\ \A v \in GetFreeVariables(formulas[1]) : v[3] # foreground_sort

\* C3 as stated: such a call emits exactly the input formula, whatever the
\* depth >= 0
C3_AnyDepth ==
    (pc = "done" /\ NoForegroundVariable /\ depth >= 0) => emitted = formulas

\* C3: a call with a single formula that has no free variable of the
\* foreground sort emits exactly that formula for every depth >= 1, and
\* nothing for depth 0.
C3_PositiveDepth ==
    (pc = "done" /\ NoForegroundVariable) =>
        emitted = IF depth >= 1 THEN formulas ELSE <<>>

\* such a call finished with the largest depth, after the second round broke
C3_Witness ==
    /\ pc = "done" /\ NoForegroundVariable
    /\ depth = MaxDepth /\ round = 2
    /\ emitted = formulas

\* the arguments of the list scenario, as encode_validity passes them on
ListScenario ==
    LET encoded == encode_validity(ListTheory, GoalNextDiffers)
    IN  language = encoded.language /\ formulas = encoded.formulas

sk0 == Application(FunctionSymbol(<<>>, Pointer, "sk0"), <<>>)
x0 == Variable("x0", Pointer)

\* the fixpoint definition of list at t, as prenex_normalize leaves it
ListDefinitionAt(t) ==
    Conjunction(Implication(list(t), Disjunction(Equality(t, nil), list(next(t)))),
                Implication(Disjunction(Equality(t, nil), list(next(t))), list(t)))

\* C7 as stated: the ground formulas of the list scenario at depth 1 are
\* unsatisfiable over a Pointer domain of size 4
C7_Unsatisfiable ==
    (pc = "done" /\ ListScenario /\ depth = 1) => ~GroundSatisfiable(language, emitted)

\* C7: in the list scenario the stream at depth 1 is the skolemized negated
\* goal followed by the fixpoint definition at nil, sk0 and next(sk0), and
\* at every depth the ground formulas are satisfiable over a Pointer domain
\* of size 4: the goal is not proved by ground unsatisfiability.
C7_Satisfiable ==
    (pc = "done" /\ ListScenario) =>
        /\ GroundSatisfiable(language, emitted)
        /\ depth = 1 =>
              emitted = << Negation(Implication(list(sk0),
                                       Negation(Equality(next(sk0), sk0)))),
                           ListDefinitionAt(nil),
                           ListDefinitionAt(sk0),
                           ListDefinitionAt(next(sk0)) >>

C7_Witness == pc = "done" /\ ListScenario /\ depth = 1 /\ Len(emitted) = 4

\* a contract violation of the term instantiator's arguments
ContractViolated ==
    \/ SmtHook(foreground_sort)
    \/ Len(SeedGroundTerms(language, foreground_sort, formulas)) = 0

\* C8: with an interpreted foreground sort or an empty seed set the call
\* itself fails: no generator is handed to the caller.
C8_FailsAtCall == pc = "created" => ~ContractViolated

----------------------------------------------------------------------------
(* Properties of prenex_normalize *)

RECURSIVE TermVariableNames(_)
TermVariableNames(term) ==
    IF term[1] = "var" THEN {term[2]}
    ELSE UNION {TermVariableNames(term[4][i]) : i \in 1..Len(term[4])}

\* the names of all variables of a formula, free or bound
RECURSIVE VariableNames(_)
VariableNames(f) ==
    CASE f[1] \in {"false", "true"} -> {}
      [] f[1] = "rel" -> UNION {TermVariableNames(f[3][i]) : i \in 1..Len(f[3])}
      [] f[1] = "eq" -> TermVariableNames(f[2]) \cup TermVariableNames(f[3])
      [] IsBinary(f) -> VariableNames(f[2]) \cup VariableNames(f[3])
      [] f[1] = "not" -> VariableNames(f[2])
      [] IsQuantification(f) -> {f[2][2]} \cup VariableNames(f[3])

C5_ImplicationDual ==
    (nf_pc # "idle" /\ nf_formula[1] = "imp") =>
        LET A == prenex_normalize(nf_formula[2]).quants
            B == prenex_normalize(nf_formula[3]).quants
        IN  /\ Len(nf_quants) = Len(A) + Len(B)
            /\ \A i \in 1..Len(A) :
                  /\ nf_quants[i][2] # A[i][2]
                  /\ nf_quants[i][1][3] = A[i][1][3]
            /\ \A i \in 1..Len(B) :
                  /\ nf_quants[Len(A) + i][2] = B[i][2]
                  /\ nf_quants[Len(A) + i][1][3] = B[i][1][3]

\* an implication whose left side has quantifiers of both kinds and whose
\* right side has one
C5_Witness ==
    /\ nf_pc = "normalized" /\ nf_formula[1] = "imp"
    /\ LET A == prenex_normalize(nf_formula[2]).quants
           B == prenex_normalize(nf_formula[3]).quants
       IN  /\ \E i, j \in 1..Len(A) : A[i][2] = UNIVERSAL /\ A[j][2] = EXISTENTIAL
           /\ Len(B) >= 1

RECURSIVE HasEquivalence(_)
HasEquivalence(f) ==
    CASE f[1] \in {"false", "true", "rel", "eq"} -> FALSE
      [] f[1] = "iff" -> TRUE
      [] f[1] \in {"and", "or", "imp"} -> HasEquivalence(f[2]) \/ HasEquivalence(f[3])
      [] f[1] = "not" -> HasEquivalence(f[2])
      [] IsQuantification(f) -> HasEquivalence(f[3])

\* every L <-> R replaced by (L -> R) /\ (R -> L)
RECURSIVE ExpandEquivalences(_)
ExpandEquivalences(f) ==
    CASE f[1] \in {"false", "true", "rel", "eq"} -> f
      [] f[1] = "iff" ->
            Conjunction(
                Implication(ExpandEquivalences(f[2]), ExpandEquivalences(f[3])),
                Implication(ExpandEquivalences(f[3]), ExpandEquivalences(f[2])))
      [] f[1] \in {"and", "or", "imp"} ->
            <<f[1], ExpandEquivalences(f[2]), ExpandEquivalences(f[3])>>
      [] f[1] = "not" -> Negation(ExpandEquivalences(f[2]))

\* the input is a conjunction of two quantifier-free formulas
QuantifierFreeConjunction ==
    /\ nf_pc # "idle"
    /\ nf_formula[1] = "and"
    /\ IsQfree(nf_formula[2]) /\ IsQfree(nf_formula[3])

\* C6 as stated: the quantifier list is empty and the body is the input
C6_Unchanged ==
    QuantifierFreeConjunction => nf_quants = <<>> /\ nf_body = nf_formula

\* C6: for a conjunction of two quantifier-free formulas the quantifier list
\* is empty and the body is the input with every equivalence L <-> R
\* replaced by (L -> R) /\ (R -> L): the input itself when no equivalence
\* occurs in it.
C6_UnchangedUpToEquivalence ==
    QuantifierFreeConjunction =>
        /\ nf_quants = <<>>
        /\ nf_body = ExpandEquivalences(nf_formula)
        /\ ~HasEquivalence(nf_formula) => nf_body = nf_formula

\* a conjunction of an implication and a negation, returned as it is
C6_Witness ==
    /\ QuantifierFreeConjunction
    /\ nf_formula[2][1] = "imp" /\ nf_formula[3][1] = "not"
    /\ nf_quants = <<>> /\ nf_body = nf_formula

----------------------------------------------------------------------------
(* The synthesis loop of examples/axiomatization.py: modal formulas over   *)
(* the atom p, read on finite structures with a relation R and a set P     *)

Worlds == 1..WorldCount

MAtom == <<"p">>
MNegation(f) == <<"mnot", f>>
MImplication(l, r) == <<"mimp", l, r>>
Modality(f) == <<"box", f>>
Diamond(f) == MNegation(Modality(MNegation(f)))

\* the formulas the template ranges over
Candidates ==
    { MAtom,
      MImplication(Modality(MAtom), MAtom),
      MImplication(Modality(MAtom), Modality(Modality(MAtom))),
      MImplication(Diamond(MAtom), Modality(Diamond(MAtom))),
      Modality(MImplication(Modality(MAtom), MAtom)) }

\* FiniteFOModelTemplate(theory, { sort_world: n }): the structures of the signature
AllStructures == [R : SUBSET (Worlds \X Worlds), P : SUBSET Worlds]

\* axiom forall x: W, y: W, z: W. R(x, y) /\ R(x, z) -> R(y, z) /\ R(z, y)
Euclidean(m) ==
    \A x, y, z \in Worlds :
        (<<x, y>> \in m.R /\ <<x, z>> \in m.R) => (<<y, z>> \in m.R /\ <<z, y>> \in m.R)

RECURSIVE TrueAt(_, _, _)
TrueAt(f, m, w) ==
    CASE f[1] = "p" -> w \in m.P
      [] f[1] = "mnot" -> ~TrueAt(f[2], m, w)
      [] f[1] = "mimp" -> TrueAt(f[2], m, w) => TrueAt(f[3], m, w)
      [] f[1] = "box" -> \A v \in Worlds : <<w, v>> \in m.R => TrueAt(f[2], m, v)

\* interpret_on_all_worlds(FOStructureFrame(m, sort_world, transition_symbol), {atom_p: P})
interpret_on_all_worlds(f, m) == \A w \in Worlds : TrueAt(f, m, w)

\* a solver session: a stack of scopes, each a set of assertions
NewSolver == <<{}>>
\* a session without scopes: every assertion lands in the base set
add_to_base(solver, assertion) == [solver EXCEPT ![1] = @ \cup {assertion}]
add_assertion(solver, assertion) == [solver EXCEPT ![Len(solver)] = @ \cup {assertion}]
push(solver) == Append(solver, {})
pop(solver) == SubSeq(solver, 1, Len(solver) - 1)
Assertions(solver) == UNION Range(solver)

\* the assertions, by what they say
TemplateConstraint == <<"template">>
ModelConstraint(theory) == <<"model", theory>>
TemplateFailsOnModel == <<"template fails on the model">>
\* a faulty variant of TemplateHoldsOn: the counterexample is not used
NoRefinement(structure) == <<"template">>
TemplateHoldsOn(structure) == <<"template holds on", structure>>
HoldsOnModel(f) == <<"holds on the model", f>>
FailsOnModel(f) == <<"fails on the model", f>>

\* a (candidate, structure) pair satisfies an assertion of solver1
Satisfies1(c, m, assertion) ==
    CASE assertion[1] = "template" -> c \in Candidates
      [] assertion[1] = "model" -> TRUE
      [] assertion[1] = "template fails on the model" -> ~interpret_on_all_worlds(c, m)
      [] assertion[1] = "template holds on" -> interpret_on_all_worlds(c, assertion[2])
      [] assertion[1] = "holds on the model" -> interpret_on_all_worlds(assertion[2], m)

\* a structure satisfies an assertion of solver2
Satisfies2(m, assertion) ==
    CASE assertion[1] = "model" -> Euclidean(m)
      [] assertion[1] = "fails on the model" -> ~interpret_on_all_worlds(assertion[2], m)

\* the candidates solver1.solve() can report a model for
Models1(solver) ==
    {c \in Candidates :
        \E m \in AllStructures : \A a \in Assertions(solver) : Satisfies1(c, m, a)}

\* the structures solver2.solve() can report
Models2(solver) ==
    {m \in AllStructures : \A a \in Assertions(solver) : Satisfies2(m, a)}

notCg == <<component, instVars, nfVars, escVars>>

\* lines 72-84: the two sessions and their base assertions
Setup ==
    /\ component = "synthesis" /\ cg_pc = "idle"
    /\ solver1' = add_assertion(add_assertion(add_assertion(NewSolver,
                      TemplateConstraint), ModelConstraint("trivial")), TemplateFailsOnModel)
    /\ solver2' = add_assertion(NewSolver, ModelConstraint("goal"))
    /\ cg_pc' = "loop"
    /\ UNCHANGED <<candidate, probe_result, counterexample, true_formulas, refuted,
                   iterations, pushes, pops, notCg>>

\* while solver1.solve(): candidate = formula_template.get_from_smt_model(...)
Synthesize ==
    /\ component = "synthesis" /\ cg_pc = "loop"
    /\ IF Models1(solver1) = {}
       THEN cg_pc' = "done" /\ UNCHANGED <<candidate, iterations>>
       ELSE /\ \E c \in Models1(solver1) : candidate' = c
            /\ iterations' = iterations + 1
            /\ cg_pc' = "push"
    /\ UNCHANGED <<solver1, solver2, probe_result, counterexample, true_formulas,
                   refuted, pushes, pops, notCg>>

\* solver2.push()
Push ==
    /\ component = "synthesis" /\ cg_pc = "push"
    /\ solver2' = push(solver2)
    /\ pushes' = pushes + 1
    /\ cg_pc' = "assert"
    /\ UNCHANGED <<solver1, candidate, probe_result, counterexample, true_formulas,
                   refuted, iterations, pops, notCg>>

\* solver2.add_assertion(smt.Not(candidate.interpret_on_all_worlds(goal_model ...)))
AssertCandidateFails ==
    /\ component = "synthesis" /\ cg_pc = "assert"
    /\ solver2' = add_assertion(solver2, FailsOnModel(candidate))
    /\ cg_pc' = "probe"
    /\ UNCHANGED <<solver1, candidate, probe_result, counterexample, true_formulas,
                   refuted, iterations, pushes, pops, notCg>>

\* if solver2.solve(): and, when it does, goal_model.get_from_smt_model(...)
Probe ==
    /\ component = "synthesis" /\ cg_pc = "probe"
    /\ IF Models2(solver2) = {}
       THEN probe_result' = FALSE /\ UNCHANGED counterexample
       ELSE probe_result' = TRUE /\ \E m \in Models2(solver2) : counterexample' = m
    /\ cg_pc' = "verdict"
    /\ UNCHANGED <<solver1, solver2, candidate, true_formulas, refuted, iterations,
                   pushes, pops, notCg>>

\* the branches of the loop body swapped
NoCounterexampleFound == ~probe_result

\* the branch taken after solver2.solve()
CounterexampleFound == probe_result

\* the counterexample branch: the template must hold on the counterexample
Refine ==
    /\ component = "synthesis" /\ cg_pc = "verdict" /\ CounterexampleFound
    /\ solver1' = add_assertion(solver1, TemplateHoldsOn(counterexample))
    /\ refuted' = refuted \cup {candidate}
    /\ cg_pc' = "pop"
    /\ UNCHANGED <<solver2, candidate, probe_result, counterexample, true_formulas,
                   iterations, pushes, pops, notCg>>

\* the other branch: true_formulas.append(candidate), and the trivial models
\* are restricted to the ones where the candidate holds
Accept ==
    /\ component = "synthesis" /\ cg_pc = "verdict" /\ ~CounterexampleFound
    /\ true_formulas' = Append(true_formulas, candidate)
    /\ solver1' = add_assertion(solver1, HoldsOnModel(candidate))
    /\ cg_pc' = "pop"
    /\ UNCHANGED <<solver2, candidate, probe_result, counterexample, refuted,
                   iterations, pushes, pops, notCg>>

\* solver2.pop()
Pop ==
    /\ component = "synthesis" /\ cg_pc = "pop"
    /\ solver2' = pop(solver2)
    /\ pops' = pops + 1
    /\ cg_pc' = "loop"
    /\ UNCHANGED <<solver1, candidate, probe_result, counterexample, true_formulas,
                   refuted, iterations, pushes, notCg>>

InitSynthesis == component = "synthesis" /\ InstIdle /\ NfIdle /\ CgIdle /\ EscIdle

NextSynthesis ==
    \/ Setup
    \/ Synthesize
    \/ Push
    \/ AssertCandidateFails
    \/ Probe
    \/ Refine
    \/ Accept
    \/ Pop

SpecSynthesis == InitSynthesis /\ [][NextSynthesis]_vars

----------------------------------------------------------------------------
(* Properties of the synthesis loop *)

BaseScope == {ModelConstraint("goal")}

\* the candidate holds on every structure of the goal theory
ValidOnGoal(f) == \A m \in AllStructures : Euclidean(m) => interpret_on_all_worlds(f, m)

\* C9: every iteration pushes once and pops once on the verifier, on either
\* branch; when a probe starts the verifier holds its base set and the
\* negation of the current candidate and nothing else; at the loop head and
\* when the loop has ended the scope depth is the initial one
C9_ScopeDiscipline ==
    (component = "synthesis" /\ cg_pc # "idle") =>
        /\ solver2[1] = BaseScope
        /\ cg_pc = "probe" => solver2 = <<BaseScope, {FailsOnModel(candidate)}>>
        /\ cg_pc \in {"verdict", "pop"} => Len(solver2) = 2
        /\ cg_pc \in {"loop", "done"} =>
               /\ solver2 = <<BaseScope>>
               /\ pushes = iterations
               /\ pops = iterations
        /\ cg_pc \in {"assert", "probe", "verdict", "pop"} =>
               /\ pushes = iterations
               /\ pops = iterations - 1

C9_Witness ==
    /\ component = "synthesis" /\ cg_pc = "done"
    /\ pops >= 2 /\ pushes = pops
    /\ refuted # {} /\ true_formulas # <<>>
    /\ Len(solver2) = 1

\* C10: a candidate is appended to true_formulas exactly when the probe made
\* for it in its scope has no counterexample; a candidate with a
\* counterexample is never in true_formulas; true_formulas only grows by
\* appending
C10_AcceptedSound ==
    /\ [](component = "synthesis" =>
            /\ \A i \in 1..Len(true_formulas) :
                   /\ true_formulas[i] \notin refuted
                   /\ ValidOnGoal(true_formulas[i])
            /\ \A c \in refuted : ~ValidOnGoal(c)
            /\ cg_pc = "pop" =>
                   /\ probe_result <=> candidate \in refuted
                   /\ ~probe_result <=>
                          /\ true_formulas # <<>>
                          /\ true_formulas[Len(true_formulas)] = candidate)
    /\ [][/\ IsPrefix(true_formulas, true_formulas')
          /\ (cg_pc = "verdict" /\ Models2(solver2) = {})
                 <=> true_formulas' = Append(true_formulas, candidate)]_vars

C10_Witness ==
    /\ component = "synthesis" /\ cg_pc = "done"
    /\ Len(true_formulas) >= 2
    /\ Cardinality(refuted) >= 2

----------------------------------------------------------------------------
(* The escalation controller: prove() of examples/fossil_variants.py *)

\* the defaults of other_params.get(...)
DefaultBounds == <<1, 0, 0, 4>>

\* the initial bounds prove() is called with
InitialBounds == {DefaultBounds, <<2, 1, 3, 5>>}

\* the lemmas the inner prover can come up with, and the seeds prove() is given
LemmaPool == {"lemma1", "lemma2"}
InitialLemmas == {<<>>, <<"lemma0">>}

\* the bounds of iteration i, as the loop body computes them
natural_proof_depth(init, i) == init[1] + i \div 2
lemma_term_depth(init, i) == init[2] + i \div 2
lemma_formula_depth(init, i) == init[3] + i
true_counterexample_size_bound(init, i) == init[4] + i \div 2

BoundsAt(init, i) ==
    <<natural_proof_depth(init, i), lemma_term_depth(init, i),
      lemma_formula_depth(init, i), true_counterexample_size_bound(init, i)>>

\* the inner prover forgets its seed
OnlyNewLemmas(seed, new) == new

\* FOSSIL.prove_lfp(..., initial_lemmas = seed): the lemma tuple it returns
\* is the seed followed by the lemmas it found
prove_lfp_lemmas(seed, new) == seed \o new

\* what the inner prover can find on top of a seed
NewLemmas(seed) ==
    LET fresh == LemmaPool \ Range(seed)
    IN  {<<>>} \cup {<<l>> : l \in fresh}
               \cup {<<l1, l2>> : <<l1, l2>> \in {q \in fresh \X fresh : q[1] # q[2]}}

notEsc == <<component, instVars, nfVars, cgVars>>

\* lines 213-234: the initial bounds, the seed and the counter
CallProve ==
    /\ component = "escalation" /\ esc_pc = "idle"
    /\ \E init \in InitialBounds : esc_init' = init
    /\ \E seed \in InitialLemmas : lemmas' = seed
    /\ iteration' = 0
    /\ esc_pc' = "bounds"
    /\ UNCHANGED <<bounds_now, esc_result, returned, esc_log, notEsc>>

\* lines 237-240
ComputeBounds ==
    /\ component = "escalation" /\ esc_pc = "bounds"
    /\ bounds_now' = BoundsAt(esc_init, iteration)
    /\ esc_pc' = "call"
    /\ UNCHANGED <<esc_init, iteration, lemmas, esc_result, returned, esc_log, notEsc>>

\* lines 244-255: result, lemmas = FOSSIL.prove_lfp(..., initial_lemmas=lemmas)
InvokeProver ==
    /\ component = "escalation" /\ esc_pc = "call"
    /\ \E r \in BOOLEAN, new \in NewLemmas(lemmas) :
          /\ esc_result' = r
          /\ lemmas' = prove_lfp_lemmas(lemmas, new)
          /\ esc_log' = Append(esc_log,
                 [iteration |-> iteration, bounds |-> bounds_now,
                  initial_lemmas |-> lemmas, result |-> r,
                  lemmas |-> prove_lfp_lemmas(lemmas, new)])
    /\ esc_pc' = "test"
    /\ UNCHANGED <<esc_init, iteration, bounds_now, returned, notEsc>>

\* lines 257-258: if result: return lemmas
Return ==
    /\ component = "escalation" /\ esc_pc = "test" /\ esc_result
    /\ returned' = <<"lemmas", lemmas>>
    /\ esc_pc' = "done"
    /\ UNCHANGED <<esc_init, iteration, bounds_now, lemmas, esc_result, esc_log, notEsc>>

\* line 260: iteration += 1, and back to the head of while True
Retry ==
    /\ component = "escalation" /\ esc_pc = "test" /\ ~esc_result
    /\ iteration < MaxIteration
    /\ iteration' = iteration + 1
    /\ esc_pc' = "bounds"
    /\ UNCHANGED <<esc_init, bounds_now, lemmas, esc_result, returned, esc_log, notEsc>>

InitEscalation == component = "escalation" /\ InstIdle /\ NfIdle /\ CgIdle /\ EscIdle

NextEscalation ==
    \/ CallProve
    \/ ComputeBounds
    \/ InvokeProver
    \/ Return
    \/ Retry

SpecEscalation == InitEscalation /\ [][NextEscalation]_vars

\* C11: at iteration i the inner prover is called with proof depth p + i div 2,
\* term depth t + i div 2, formula depth f + i and structure-size bound
\* s + i div 3, for the initial bounds (p, t, f, s)
ClaimedBounds(init, i) ==
    <<init[1] + i \div 2, init[2] + i \div 2, init[3] + i, init[4] + i \div 3>>

C11_Schedule ==
    (component = "escalation" /\ esc_pc = "call") =>
        bounds_now = ClaimedBounds(esc_init, iteration)

----------------------------------------------------------------------------
(* Further properties of term_instantiate *)

\* C13: within one round the assignments of every input formula are drawn
\* from the ground terms as they stood when the round began
C13_RoundIsolation ==
    (component = "instantiate" /\ pc \in {"assign", "yielded"}) =>
        ordered_ground_terms = round_start_terms

----------------------------------------------------------------------------
(* Further properties of skolemize *)

\* the universal variables of a quantifier list in front of entry i, in list order
UniversalsBefore(quants, i) ==
    LET selected == SelectSeq(SubSeq(quants, 1, i - 1), LAMBDA q : q[2] = UNIVERSAL)
    IN  [k \in 1..Len(selected) |-> selected[k][1]]

\* the positions of the existential entries, in list order
ExistentialPositions(quants) ==
    LET positions == [i \in 1..Len(quants) |-> i]
    IN  SelectSeq(positions, LAMBDA i : quants[i][2] = EXISTENTIAL)

\* C14: one new function symbol per existential entry of the prenex list,
\* fresh, from the sorts of the universal variables in front of the entry to
\* the sort of the entry's variable; the body is the prenex body with every
\* existential variable replaced by its symbol applied to those universal
\* variables, and no existential variable is left in it
C14_FullSkolemization ==
    (component = "normalize" /\ nf_pc = "skolemized") =>
        LET positions == ExistentialPositions(nf_quants)
            added == SubSeq(sk_language, Len(sk_given) + 1, Len(sk_language))
            context(k) == UniversalsBefore(nf_quants, positions[k])
            variable(k) == nf_quants[positions[k]][1]
            replaced == {variable(k) : k \in 1..Len(positions)}
            image(v) ==
                LET k == CHOOSE j \in 1..Len(positions) : variable(j) = v
                IN  <<"app", added[k].name, added[k].output_sort, context(k)>>
        IN  /\ IsPrefix(sk_given, sk_language)
            /\ Len(added) = Len(positions)
            /\ \A k \in 1..Len(added) :
                   /\ added[k].name \notin FunctionNames(sk_given)
                   /\ \A j \in 1..Len(added) : added[j].name = added[k].name => j = k
                   /\ added[k].input_sorts =
                          [n \in 1..Len(context(k)) |-> context(k)[n][3]]
                   /\ added[k].output_sort = variable(k)[3]
            /\ sk_body = Substitute(nf_body, [v \in replaced |-> image(v)])
            /\ IsQfree(sk_body)
            /\ GetFreeVariables(sk_body) \cap replaced = {}

C14_Witness ==
    /\ component = "normalize" /\ nf_pc = "skolemized"
    /\ "sk0" \in FunctionNames(sk_given)
    /\ Len(sk_language) = Len(sk_given) + 2
    /\ \E i, j \in 1..Len(nf_quants) :
          /\ i < j
          /\ nf_quants[i][2] = UNIVERSAL
          /\ nf_quants[j][2] = EXISTENTIAL
          /\ nf_quants[j][1] \in GetFreeVariables(nf_body)

----------------------------------------------------------------------------
(* Further properties of the synthesis loop *)

\* the refinements solver1 holds, and the one that rules a candidate out
Refinements == {a \in Assertions(solver1) : a[1] = "template holds on"}
RuledOut(c) == \E a \in Refinements : ~interpret_on_all_worlds(c, a[2])

\* C15: a candidate a counterexample was found for is ruled out by the
\* refinement added for it, solver1 cannot return it any more, and no later
\* iteration proposes it: each falsified candidate is proposed once
C15_RefinementProgress ==
    /\ [](component = "synthesis" =>
            /\ \A c \in refuted : RuledOut(c) /\ c \notin Models1(solver1)
            /\ cg_pc \in {"loop", "done"} =>
                   iterations = Len(true_formulas) + Cardinality(refuted))
    /\ [][(cg_pc = "loop" /\ cg_pc' = "push") => candidate' \notin refuted]_vars

C15_Witness ==
    /\ component = "synthesis" /\ cg_pc = "push"
    /\ Cardinality(refuted) >= 2
    /\ candidate \notin refuted
    /\ \E c \in refuted : ~RuledOut(candidate) /\ RuledOut(c)

----------------------------------------------------------------------------
(* Properties of the emitted stream of term_instantiate *)

\* f is an input formula with terms of G for its foreground free variables
IsInstance(f, G) ==
    \E k \in 1..Len(formulas) :
        LET fv == ForegroundFreeVars(formulas[k], foreground_sort)
        IN  \E n \in 0..(ProductSize(G, Len(fv)) - 1) :
                f = InstantiateWith(formulas[k], fv, ProductAt(G, Len(fv), n))

\* C16: no formula is emitted twice in one call; an emitted formula is in
\* instantiated_formulas from the moment it is emitted and
\* instantiated_formulas never loses a formula; every emitted formula is an
\* input formula with terms of ground_terms for its foreground free variables
C16_NoReemission ==
    /\ [](component = "instantiate" =>
            /\ NoDuplicates(emitted)
            /\ Range(emitted) \subseteq Range(instantiated_formulas)
            /\ \A i \in 1..Len(emitted) : IsInstance(emitted[i], ground_terms))
    /\ [][pc' # "created" =>
              /\ IsPrefix(instantiated_formulas, instantiated_formulas')
              /\ IsPrefix(emitted, emitted')]_vars

C16_Witness ==
    /\ component = "instantiate" /\ pc = "done"
    /\ round >= 2
    /\ Len(formulas) >= 2
    /\ Len(emitted) >= 4
    /\ \E k \in 1..Len(formulas) : formulas[k] \notin Range(emitted)

====
